---- MODULE Spec2Model ----
(***************************************************************************)
(* Model of the Packet Transfer Protocol engine of imu3d (ota.ts): the     *)
(* transmitter otaSend, the receive loop processFR, and the asynchronous   *)
(* tasks that run them against one WebHID device.                          *)
(*                                                                         *)
(* Strings are sequences of UTF-16 code units, byte arrays are sequences   *)
(* of integers 0..255.  One action is the code a task runs between two     *)
(* awaits: the transport call it was suspended on together with the        *)
(* synchronous code that follows it up to the next await.                  *)
(***************************************************************************)
EXTENDS Integers, Sequences, FiniteSets, TLC

(***************************************************************************)
(* Bounds of the model.                                                    *)
(***************************************************************************)
\* Concurrent otaSend calls (async tasks) on the one device.
NumTasks == 2
\* Longest command of the transmitter checks, in chunks of maxData bytes.
MaxChunks == 3
\* Reads one receive loop may perform before the model stops following it:
\* in the receiver checks, and in the engine.
MaxReads == 3
EngineReads == 2

Tasks == 1..NumTasks

(***************************************************************************)
(* OTA_FR: the feature report layout.                                      *)
(***************************************************************************)
OTA_FR_id == 6
WriteLength == 244
WriteHeaderLength == 5
WriteMaxData == 244 - 5
ReadHeaderLength == 6
ReadMsgTypeIndex == 3
ReadLenIndex == 4

\* The largest length the two length bytes of a header can hold.
MaxDeclared == 65535

Min(a, b) == IF a < b THEN a ELSE b
Max(a, b) == IF a > b THEN a ELSE b

\* The concatenation of f[lo], ..., f[hi], by halves.
RECURSIVE Flatten(_, _, _)
Flatten(f, lo, hi) ==
  IF lo > hi THEN <<>>
  ELSE IF lo = hi THEN f[lo]
  ELSE LET mid == (lo + hi) \div 2
       IN Flatten(f, lo, mid) \o Flatten(f, mid + 1, hi)

(***************************************************************************)
(* TextEncoder.encode: UTF-16 code units to UTF-8 bytes.  A surrogate pair *)
(* is one 4-byte sequence, a lone surrogate is encoded as U+FFFD.          *)
(***************************************************************************)
IsHighSurrogate(u) == u >= 55296 /\ u <= 56319
IsLowSurrogate(u) == u >= 56320 /\ u <= 57343

Utf8OfCodePoint(cp) ==
  IF cp < 128 THEN <<cp>>
  ELSE IF cp < 2048 THEN <<192 + (cp \div 64), 128 + (cp % 64)>>
  ELSE IF cp < 65536
    THEN <<224 + (cp \div 4096), 128 + ((cp \div 64) % 64), 128 + (cp % 64)>>
  ELSE <<240 + (cp \div 262144), 128 + ((cp \div 4096) % 64),
         128 + ((cp \div 64) % 64), 128 + (cp % 64)>>

\* The bytes code unit i of s contributes: a low surrogate right after a
\* high one was encoded with it.
EncodeUnit(s, i) ==
  IF IsHighSurrogate(s[i]) /\ i < Len(s) /\ IsLowSurrogate(s[i + 1])
    THEN Utf8OfCodePoint(65536 + (s[i] - 55296) * 1024 + (s[i + 1] - 56320))
  ELSE IF IsLowSurrogate(s[i]) /\ i > 1 /\ IsHighSurrogate(s[i - 1]) THEN <<>>
  ELSE IF IsHighSurrogate(s[i]) \/ IsLowSurrogate(s[i]) THEN Utf8OfCodePoint(65533)
  ELSE Utf8OfCodePoint(s[i])

TextEncode(s) == Flatten([i \in 1..Len(s) |-> EncodeUnit(s, i)], 1, Len(s))

(***************************************************************************)
(* TextDecoder.decode (utf-8, not fatal, BOM stripped): the WHATWG UTF-8   *)
(* decoder.  A lead byte takes the continuation bytes that follow it while *)
(* they are in range, up to the number it needs; it yields its code point  *)
(* when it got them all and U+FFFD otherwise.  Every byte not taken by a   *)
(* lead starts anew, and yields U+FFFD unless it is ASCII or a lead.       *)
(***************************************************************************)
Utf16OfCodePoint(cp) ==
  IF cp < 65536 THEN <<cp>>
  ELSE <<55296 + ((cp - 65536) \div 1024), 56320 + ((cp - 65536) % 1024)>>

\* Continuation bytes the lead byte x needs (0: x is no lead byte).
Needed(x) ==
  IF x >= 194 /\ x <= 223 THEN 1
  ELSE IF x >= 224 /\ x <= 239 THEN 2
  ELSE IF x >= 240 /\ x <= 244 THEN 3
  ELSE 0

\* Whether y may be the k-th continuation byte after the lead byte x.
InRange(x, k, y) ==
  LET lower == IF k = 1 /\ x = 224 THEN 160
               ELSE IF k = 1 /\ x = 240 THEN 144 ELSE 128
      upper == IF k = 1 /\ x = 237 THEN 159
               ELSE IF k = 1 /\ x = 244 THEN 143 ELSE 191
  IN y >= lower /\ y <= upper

\* The number of continuation bytes the lead at j takes.
Taken(b, j) ==
  LET ok(k) == j + k <= Len(b) /\ InRange(b[j], k, b[j + k])
      n == Needed(b[j])
  IN IF n >= 1 /\ ok(1)
       THEN (IF n >= 2 /\ ok(2) THEN (IF n >= 3 /\ ok(3) THEN 3 ELSE 2) ELSE 1)
     ELSE 0

\* Whether byte i was taken by a lead byte before it.
IsTaken(b, i) ==
  \E j \in (i - 3)..(i - 1) :
    j >= 1 /\ (b[j] < 128 \/ b[j] > 191) /\ i - j <= Taken(b, j)

DecodeAt(b, i) ==
  LET x == b[i]
      n == Needed(x)
      lead == IF n = 1 THEN x % 32 ELSE IF n = 2 THEN x % 16 ELSE x % 8
      cp == IF n = 1 THEN lead * 64 + (b[i + 1] % 64)
            ELSE IF n = 2 THEN (lead * 64 + (b[i + 1] % 64)) * 64 + (b[i + 2] % 64)
            ELSE ((lead * 64 + (b[i + 1] % 64)) * 64 + (b[i + 2] % 64)) * 64
                   + (b[i + 3] % 64)
  IN IF x >= 128 /\ x <= 191 /\ IsTaken(b, i) THEN <<>>
     ELSE IF x <= 127 THEN <<x>>
     ELSE IF n = 0 THEN <<65533>>
     ELSE IF Taken(b, i) = n THEN Utf16OfCodePoint(cp)
     ELSE <<65533>>

TextDecode(b) ==
  LET s == Flatten([i \in 1..Len(b) |-> DecodeAt(b, i)], 1, Len(b))
  IN IF Len(s) > 0 /\ s[1] = 65279 THEN Tail(s) ELSE s

(***************************************************************************)
(* JSON.parse, for the scalar texts a response of the model can hold:      *)
(* optional white space around true, false, null or an integer with an     *)
(* optional exponent.  Any other text is a SyntaxError (the payload bytes  *)
(* of the model hold no quote, bracket, brace, '.' or '+').                *)
(***************************************************************************)
IsDigit(c) == c >= 48 /\ c <= 57
IsJsonSpace(c) == c \in {32, 9, 10, 13}

JsonTrim(s) ==
  LET keep == {i \in 1..Len(s) : ~IsJsonSpace(s[i])}
  IN IF keep = {} THEN <<>>
     ELSE SubSeq(s, CHOOSE i \in keep : \A j \in keep : i <= j,
                    CHOOSE i \in keep : \A j \in keep : i >= j)

RECURSIVE DigitsValue(_)
DigitsValue(d) ==
  IF Len(d) = 0 THEN 0
  ELSE 10 * DigitsValue(SubSeq(d, 1, Len(d) - 1)) + (d[Len(d)] - 48)

RECURSIVE Pow10(_)
Pow10(n) == IF n = 0 THEN 1 ELSE 10 * Pow10(n - 1)

AllDigits(d) == Len(d) > 0 /\ \A i \in 1..Len(d) : IsDigit(d[i])

\* The unsigned number token: digits, no leading zero, optional e/E digits.
JsonUnsigned(tok) ==
  LET stops == {i \in 1..Len(tok) : ~IsDigit(tok[i])}
      cut == IF stops = {} THEN Len(tok) + 1
             ELSE CHOOSE i \in stops : \A j \in stops : i <= j
      int == SubSeq(tok, 1, cut - 1)
      rest == SubSeq(tok, cut, Len(tok))
      intOk == AllDigits(int) /\ (Len(int) > 1 => int[1] # 48)
  IN IF ~intOk THEN [ok |-> FALSE, n |-> 0]
     ELSE IF Len(rest) = 0 THEN [ok |-> TRUE, n |-> DigitsValue(int)]
     ELSE IF rest[1] \in {101, 69} /\ AllDigits(Tail(rest))
       THEN [ok |-> TRUE, n |-> DigitsValue(int) * Pow10(DigitsValue(Tail(rest)))]
     ELSE [ok |-> FALSE, n |-> 0]

JsonValue(t, n) == [ok |-> TRUE, t |-> t, n |-> n]
JsonSyntaxError == [ok |-> FALSE, t |-> "SyntaxError", n |-> 0]

JSONParse(s) ==
  LET tok == JsonTrim(s) IN
  IF tok = <<116, 114, 117, 101>> THEN JsonValue("boolean", 1)
  ELSE IF tok = <<102, 97, 108, 115, 101>> THEN JsonValue("boolean", 0)
  ELSE IF tok = <<110, 117, 108, 108>> THEN JsonValue("null", 0)
  ELSE IF Len(tok) > 0 /\ tok[1] = 45
    THEN (LET u == JsonUnsigned(Tail(tok))
          IN IF u.ok THEN JsonValue("number", 0 - u.n) ELSE JsonSyntaxError)
  ELSE (LET u == JsonUnsigned(tok)
        IN IF u.ok THEN JsonValue("number", u.n) ELSE JsonSyntaxError)

\* String(n) for a byte value: its decimal digits.
RECURSIVE Decimal(_)
Decimal(n) == IF n < 10 THEN <<48 + n>> ELSE Decimal(n \div 10) \o <<48 + (n % 10)>>

(***************************************************************************)
(* Errors and results.  A message is a template of STRINGS (or "text" for  *)
(* a text taken as is) with the text put in its placeholder; name is the   *)
(* class of the thrown object.                                             *)
(***************************************************************************)
Message(tpl, arg) == [tpl |-> tpl, arg |-> arg]
NullError == Message("null", <<>>)
\* A string is falsy exactly when it is empty; the templates are not empty.
Truthy(msg) == msg.tpl # "null" /\ ~(msg.tpl = "text" /\ msg.arg = <<>>)

NoResult == [state |-> "pending", name |-> "", msg |-> NullError, t |-> "", n |-> 0]
Rejected(name, msg) == [state |-> "rejected", name |-> name, msg |-> msg, t |-> "", n |-> 0]
Resolved(t, n) == [state |-> "resolved", name |-> "", msg |-> NullError, t |-> t, n |-> n]

(***************************************************************************)
(* The texts of STRINGS up to their placeholder (every placeholder ends    *)
(* its template), fmt, and String(err) of a thrown object.                 *)
(***************************************************************************)
TemplateText(tpl) ==
  CASE tpl = "noDeviceSpecified" ->
       \* No device specified.
       <<78, 111, 32, 100, 101, 118, 105, 99, 101, 32, 115, 112, 101,
         99, 105, 102, 105, 101, 100, 46>>
    [] tpl = "noConnectedDevice" ->
       \* No connected device
       <<78, 111, 32, 99, 111, 110, 110, 101, 99, 116, 101, 100, 32,
         100, 101, 118, 105, 99, 101>>
    [] tpl = "deviceNotOpened" ->
       \* Device not opened
       <<68, 101, 118, 105, 99, 101, 32, 110, 111, 116, 32, 111, 112,
         101, 110, 101, 100>>
    [] tpl = "emptyResponse" ->
       \* Empty response
       <<69, 109, 112, 116, 121, 32, 114, 101, 115, 112, 111, 110, 115,
         101>>
    [] tpl = "unknownMessageType" ->
       \* Unknown message type: 
       <<85, 110, 107, 110, 111, 119, 110, 32, 109, 101, 115, 115, 97,
         103, 101, 32, 116, 121, 112, 101, 58, 32>>
    [] tpl = "errorOpeningDevice" ->
       \* Error opening device: 
       <<69, 114, 114, 111, 114, 32, 111, 112, 101, 110, 105, 110, 103,
         32, 100, 101, 118, 105, 99, 101, 58, 32>>
    [] tpl = "errorSendingInit" ->
       \* Error sending init: 
       <<69, 114, 114, 111, 114, 32, 115, 101, 110, 100, 105, 110, 103,
         32, 105, 110, 105, 116, 58, 32>>
    [] tpl = "errorClosingDevice" ->
       \* Error closing device: 
       <<69, 114, 114, 111, 114, 32, 99, 108, 111, 115, 105, 110, 103,
         32, 100, 101, 118, 105, 99, 101, 58, 32>>
    [] tpl = "errorReceivingFeatureReport" ->
       \* Error receiving feature report: 
       <<69, 114, 114, 111, 114, 32, 114, 101, 99, 101, 105, 118, 105,
         110, 103, 32, 102, 101, 97, 116, 117, 114, 101, 32, 114,
         101, 112, 111, 114, 116, 58, 32>>
    [] tpl = "errorSendingFeatureReport" ->
       \* Error sending feature report: 
       <<69, 114, 114, 111, 114, 32, 115, 101, 110, 100, 105, 110, 103,
         32, 102, 101, 97, 116, 117, 114, 101, 32, 114, 101, 112,
         111, 114, 116, 58, 32>>
    [] tpl = "No data" ->
       \* No data
       <<78, 111, 32, 100, 97, 116, 97>>
    [] OTHER -> <<>>

\* fmt(template, vars) of a message: the template with its text put in.
MessageText(msg) == TemplateText(msg.tpl) \o msg.arg

\* String(err): the name, and ": " and the message unless it is empty.  (The
\* text of a SyntaxError or RangeError is the JavaScript engine's own; the
\* model leaves it empty.)
ErrorString(name, msg) ==
  LET nm == CASE name = "Error" -> <<69, 114, 114, 111, 114>>
              [] name = "SyntaxError" ->
                   <<83, 121, 110, 116, 97, 120, 69, 114, 114, 111, 114>>
              [] OTHER -> <<82, 97, 110, 103, 101, 69, 114, 114, 111, 114>>
  IN IF MessageText(msg) = <<>> THEN nm ELSE nm \o <<58, 32>> \o MessageText(msg)

(***************************************************************************)
(* State.  opened is device.opened.  task[p] holds the locals of the       *)
(* otaSend call of task p and of the processFR call it makes:              *)
(*   pc          idle, write (awaiting sendFeatureReport), read (awaiting  *)
(*               receiveFeatureReport), done (the promise is settled)      *)
(*   data, uint8Array, offset, chunkIndex        otaSend's locals          *)
(*   remaining, error, acc                       processFR's locals; acc   *)
(*               is reportResponse.data as the loop accumulated it         *)
(*   sent        the frames the transport took from this call              *)
(*   dv, reads   the last frame the transport returned to this call and    *)
(*               the number of frames it returned                          *)
(*   result      how the promise of the call settled                       *)
(*   caller      the call task p runs: send (otaSend called from outside), *)
(*               open (otaOpen), close (otaClose) or hb (sendHB); pc open  *)
(*               and close are its awaits of device.open and device.close  *)
(*   device      the call's device argument                                *)
(* ota_g_device is ota_g.device, info is the info property otaOpen puts on *)
(* the device, and hbTimer is hbTimer.id (0 for null) together with        *)
(* whether the timeout it names is still to fire.                          *)
(***************************************************************************)
VARIABLES opened, task, ota_g_device, info, hbTimer, app

vars == <<opened, task, ota_g_device, info, hbTimer, app>>

\* What the steps of a plain send leave alone.
session == <<ota_g_device, info, hbTimer, app>>

IdleTask ==
  [pc |-> "idle", data |-> <<>>, uint8Array |-> <<>>, offset |-> 0, chunkIndex |-> 0,
   remaining |-> 0, error |-> NullError, acc |-> <<>>,
   sent |-> <<>>, dv |-> <<>>, reads |-> 0, result |-> NoResult,
   caller |-> "send", device |-> "null"]

Settle(t, result) == [t EXCEPT !.pc = "done", !.result = result]

(***************************************************************************)
(* processFR.                                                              *)
(***************************************************************************)
\* The frame's fields as the loop body reads them (frames of 6 bytes or more).
PayloadOf(dv) == SubSeq(dv, ReadHeaderLength + 1, Len(dv))
ReportLength(dv) == dv[ReadLenIndex + 1] + 256 * dv[ReadLenIndex + 2]
MsgTypeOf(dv) == dv[ReadMsgTypeIndex + 1]
\* FrameData without the cut at the declared length.
FrameData_Unclipped(dv) == TextDecode(PayloadOf(dv))

FrameData(dv) ==
  LET data == TextDecode(PayloadOf(dv))
  IN SubSeq(data, 1, Min(ReportLength(dv), Len(data)))

\* The switch on msgType, after remaining = 0: what it leaves in remaining,
\* in reportResponse.error and in reportResponse.data.
NextRemaining_AckRspStops(msgType, reportLength, data) ==
  IF msgType \in {0, 1} THEN Max(0, reportLength - Len(data)) ELSE 0

\* NextRemaining with MID falling through to the frames that end the loop.
NextRemaining_FirstOnly(msgType, reportLength, data) ==
  IF msgType = 0 THEN Max(0, reportLength - Len(data))
  ELSE IF msgType = 3 THEN 1
  ELSE 0

NextRemaining(msgType, reportLength, data) ==
  IF msgType \in {0, 1} THEN Max(0, reportLength - Len(data))
  ELSE IF msgType = 3 THEN 1
  ELSE 0

NextError(error, msgType, data) ==
  IF msgType \in {0, 1, 2, 3, 6} THEN error
  ELSE IF msgType = 4 THEN Message("text", data)
  ELSE IF msgType = 5 THEN Message("emptyResponse", <<>>)
  ELSE Message("unknownMessageType", Decimal(msgType))

\* NextData with MID assigning where it should append.
NextData_MidReplaces(acc, msgType, data) ==
  IF msgType = 0 THEN acc \o data
  ELSE IF msgType \in {1, 6} THEN data
  ELSE acc

\* NextData with RESULT appending where it should assign.
NextData_ResultAppends(acc, msgType, data) ==
  IF msgType \in {0, 1, 6} THEN acc \o data
  ELSE acc

NextData(acc, msgType, data) ==
  IF msgType \in {0, 1} THEN acc \o data
  ELSE IF msgType = 6 THEN data
  ELSE acc

Dispatch(t, dv) ==
  LET data == FrameData(dv)
      reportLength == ReportLength(dv)
      msgType == MsgTypeOf(dv)
  IN [t EXCEPT !.remaining = NextRemaining(msgType, reportLength, data),
               !.error = NextError(t.error, msgType, data),
               !.acc = NextData(t.acc, msgType, data)]

\* ProcessFRExit with the parse not guarded by the payload's length.
ProcessFRExit_AlwaysParses(t) ==
  LET parsed == JSONParse(t.acc) IN
  IF ~parsed.ok
    THEN Settle(t, Rejected("SyntaxError", Message("JSON.parse", <<>>)))
  ELSE IF Truthy(t.error) THEN Settle(t, Rejected("Error", t.error))
  ELSE Settle(t, Resolved(parsed.t, parsed.n))

\* ProcessFRExit returning the payload text as it is.
ProcessFRExit_NoParse(t) ==
  IF Truthy(t.error) THEN Settle(t, Rejected("Error", t.error))
  ELSE Settle(t, Resolved("string", Len(t.acc)))

\* After the loop: parse a non-empty payload, then throw the recorded error.
ProcessFRExit(t) ==
  LET parsed == JSONParse(t.acc) IN
  IF Len(t.acc) > 0 /\ ~parsed.ok
    THEN Settle(t, Rejected("SyntaxError", Message("JSON.parse", <<>>)))
  ELSE IF Truthy(t.error) THEN Settle(t, Rejected("Error", t.error))
  ELSE IF Len(t.acc) > 0 THEN Settle(t, Resolved(parsed.t, parsed.n))
  ELSE Settle(t, Resolved("string", 0))

\* One pass of the loop body on the frame dv the transport returned.
ProcessFRFrame(t, dv) ==
  IF Len(dv) < ReadHeaderLength
    THEN Settle([t EXCEPT !.dv = dv, !.reads = t.reads + 1],
                Rejected("RangeError", Message("text", <<>>)))
  ELSE LET u == [Dispatch(t, dv) EXCEPT !.dv = dv, !.reads = t.reads + 1]
       IN IF u.remaining # 0 THEN u ELSE ProcessFRExit(u)

\* The call of processFR up to its first await.
ProcessFREnter(t, isOpen) ==
  IF ~isOpen THEN Settle(t, Rejected("Error", Message("deviceNotOpened", <<>>)))
  ELSE [t EXCEPT !.pc = "read", !.remaining = 1, !.error = NullError, !.acc = <<>>]

(***************************************************************************)
(* otaSend.                                                                *)
(***************************************************************************)
Remaining(t) == Len(t.uint8Array) - t.offset

ChunkLen_OneShort(t) == Min(WriteMaxData - 1, Remaining(t))

ChunkLen(t) == Min(WriteMaxData, Remaining(t))

ChunkMsgType_Swapped(t) == IF t.chunkIndex = 0 THEN 1 ELSE 0

ChunkMsgType(t) == IF t.chunkIndex = 0 THEN 0 ELSE 1

DeclaredLength_OfChunk(t) == ChunkLen(t)

DeclaredLength_OfMessage(t) == Len(t.uint8Array)

\* The length the header declares: the bytes not yet sent.
DeclaredLength(t) == Remaining(t)

\* FeatureReport on a buffer that is not zeroed: behind the chunk it keeps
\* the bytes of the frame written before.
FeatureReport_Reused(t) ==
  LET header == <<0, 255, ChunkMsgType(t), DeclaredLength(t) % 256,
                  (DeclaredLength(t) \div 256) % 256>>
      chunk == SubSeq(t.uint8Array, t.offset + 1, t.offset + ChunkLen(t))
  IN [i \in 1..WriteLength |->
        IF i <= WriteHeaderLength THEN header[i]
        ELSE IF i - WriteHeaderLength <= Len(chunk) THEN chunk[i - WriteHeaderLength]
        ELSE IF t.sent # <<>> THEN t.sent[Len(t.sent)].data[i]
        ELSE 0]

\* featureReport: 244 zero bytes, the 5-byte header, then the chunk.
FeatureReport(t) ==
  LET header == <<0, 255, ChunkMsgType(t), DeclaredLength(t) % 256,
                  (DeclaredLength(t) \div 256) % 256>>
      chunk == SubSeq(t.uint8Array, t.offset + 1, t.offset + ChunkLen(t))
  IN [i \in 1..WriteLength |->
        IF i <= WriteHeaderLength THEN header[i]
        ELSE IF i - WriteHeaderLength <= Len(chunk) THEN chunk[i - WriteHeaderLength]
        ELSE 0]

\* ChunkLoop going on to processFR once the first chunk is written.
ChunkLoop_ReadsEarly(t, isOpen) ==
  IF t.offset < Len(t.uint8Array) /\ t.chunkIndex = 0 THEN [t EXCEPT !.pc = "write"]
  ELSE ProcessFREnter(t, isOpen)

\* The chunk loop's test: write the next chunk, or go on to processFR.
ChunkLoop(t, isOpen) ==
  IF t.offset < Len(t.uint8Array) THEN [t EXCEPT !.pc = "write"]
  ELSE ProcessFREnter(t, isOpen)

\* SendPrecondition with the opened check ahead of the null check.
SendPrecondition_OpenedFirst(dev, isOpen, data) ==
  IF ~isOpen THEN Message("deviceNotOpened", <<>>)
  ELSE IF dev = "null" THEN Message("noConnectedDevice", <<>>)
  ELSE IF data = <<>> THEN Message("No data", <<>>)
  ELSE NullError

\* SendPrecondition without the check of the command text.
SendPrecondition_NoEmptyCheck(dev, isOpen, data) ==
  IF dev = "null" THEN Message("noConnectedDevice", <<>>)
  ELSE IF ~isOpen THEN Message("deviceNotOpened", <<>>)
  ELSE NullError

\* The precondition checks of otaSend, in the order of the conditional.
SendPrecondition(dev, isOpen, data) ==
  IF dev = "null" THEN Message("noConnectedDevice", <<>>)
  ELSE IF ~isOpen THEN Message("deviceNotOpened", <<>>)
  ELSE IF data = <<>> THEN Message("No data", <<>>)
  ELSE NullError

\* otaSend(device, data) up to its first await, run by the task record t0.
OtaSendCall(t0, dev, isOpen, data) ==
  LET err == SendPrecondition(dev, isOpen, data)
      t == [t0 EXCEPT !.device = dev, !.data = data, !.uint8Array = TextEncode(data)]
  IN IF Truthy(err)
       THEN Settle([t0 EXCEPT !.device = dev, !.data = data], Rejected("Error", err))
     ELSE ChunkLoop(t, isOpen)

\* AfterSend with sendHB letting the outcome of its otaSend through.
AfterSend_HbRethrows(t) ==
  IF t.pc # "done" \/ t.caller \in {"send", "on", "off", "hb"} THEN t
  ELSE IF t.result.state = "rejected"
    THEN [t EXCEPT !.result =
            Rejected("Error", Message("errorSendingInit",
                                      ErrorString(t.result.name, t.result.msg)))]
  ELSE t

\* What the caller does once its otaSend has settled: sendHB logs the
\* outcome either way and returns; otaOpen wraps a rejection, and returns
\* the response otherwise.
AfterSend(t) ==
  IF t.pc # "done" \/ t.caller \in {"send", "on", "off"} THEN t
  ELSE IF t.caller = "hb" THEN [t EXCEPT !.result = Resolved("undefined", 0)]
  ELSE IF t.result.state = "rejected"
    THEN [t EXCEPT !.result =
            Rejected("Error", Message("errorSendingInit",
                                      ErrorString(t.result.name, t.result.msg)))]
  ELSE t

\* The application's state: the connected device, the two flags of the
\* sampling flow and its pending timeout ("countdown" or "stop").
NoApp == [device |-> "null", isStreaming |-> FALSE, isCollecting |-> FALSE, timer |-> "none"]

\* startTwoSecondSample goes on from a settled ota.send: after
\* "sensor_stream on" it sets both flags and the two-second timeout, or
\* clears both flags in its catch; after "sensor_stream off" the timeout's
\* callback clears both flags, and does nothing when the send was rejected.
AfterSample(a, t) ==
  IF t.pc # "done" THEN a
  ELSE IF t.caller = "on" /\ t.result.state = "resolved"
    THEN [a EXCEPT !.isStreaming = TRUE, !.isCollecting = TRUE, !.timer = "stop"]
  ELSE IF t.caller = "on" \/ (t.caller = "off" /\ t.result.state = "resolved")
    THEN [a EXCEPT !.isStreaming = FALSE, !.isCollecting = FALSE]
  ELSE a

\* Attaches with the device stored before the outcome of init is known.
Attaches_WhateverInit(t) == t.caller = "open" /\ t.pc = "done"

\* otaOpen got the response of its init exchange: it goes on to attach.
Attaches(t) == t.caller = "open" /\ t.pc = "done" /\ t.result.state = "resolved"

\* The otaSend of task p has run up to u: its caller goes on from there,
\* otaOpen putting info on the device and the device in ota_g, the sampling
\* flow setting the application's state a.
StepFrom(p, u, a) ==
  LET v == AfterSend(u) IN
  /\ task' = [task EXCEPT ![p] = v]
  /\ ota_g_device' = IF Attaches(v) THEN v.device ELSE ota_g_device
  /\ info' = IF Attaches(v) THEN v.result ELSE info
  /\ app' = AfterSample(a, v)

Step(p, u) == StepFrom(p, u, app)

OtaSend(p, dev, data) ==
  /\ task[p].pc = "idle"
  /\ Step(p, OtaSendCall(IdleTask, dev, opened, data))
  /\ UNCHANGED <<opened, hbTimer>>

\* sendFeatureReport resolves: the frame is on the wire, the loop goes on.
SendFeatureReportOk(p) ==
  /\ task[p].pc = "write"
  /\ opened
  /\ LET t == task[p]
         u == [t EXCEPT !.sent = Append(t.sent, [reportId |-> OTA_FR_id,
                                                 data |-> FeatureReport(t)]),
                        !.offset = t.offset + ChunkLen(t),
                        !.chunkIndex = t.chunkIndex + 1]
     IN Step(p, ChunkLoop(u, opened))
  /\ UNCHANGED <<opened, hbTimer>>

\* SendFeatureReportFail with the failure swallowed: the loop goes on to
\* the next chunk.
SendFeatureReportFail_SkipsChunk(p, e) ==
  /\ task[p].pc = "write"
  /\ LET t == task[p]
         u == [t EXCEPT !.offset = t.offset + ChunkLen(t),
                        !.chunkIndex = t.chunkIndex + 1]
     IN Step(p, ChunkLoop(u, opened))
  /\ UNCHANGED <<opened, hbTimer>>

\* sendFeatureReport rejects with e: the wrapped error ends the send.
SendFeatureReportFail(p, e) ==
  /\ task[p].pc = "write"
  /\ Step(p, Settle(task[p], Rejected("Error", Message("errorSendingFeatureReport", e))))
  /\ UNCHANGED <<opened, hbTimer>>

\* receiveFeatureReport resolves with the frame dv.
ReceiveFeatureReportOk(p, dv) ==
  /\ task[p].pc = "read"
  /\ opened
  /\ Step(p, ProcessFRFrame(task[p], dv))
  /\ UNCHANGED <<opened, hbTimer>>

\* ReceiveFeatureReportFail with the transport's error let through as it is.
ReceiveFeatureReportFail_Unwrapped(p, e) ==
  /\ task[p].pc = "read"
  /\ Step(p, Settle(task[p], Rejected("Error", Message("text", e))))
  /\ UNCHANGED <<opened, hbTimer>>

\* receiveFeatureReport rejects with e.
ReceiveFeatureReportFail(p, e) ==
  /\ task[p].pc = "read"
  /\ Step(p, Settle(task[p], Rejected("Error", Message("errorReceivingFeatureReport", e))))
  /\ UNCHANGED <<opened, hbTimer>>

\* Return with the hbTimer.arm(device) at the end of otaSend put back.
Return_Arms(p) ==
  /\ task[p].pc = "done"
  /\ task' = [task EXCEPT ![p] = IdleTask]
  /\ hbTimer' = IF opened THEN [id |-> 1, pending |-> TRUE, device |-> "hid"]
                ELSE [hbTimer EXCEPT !.pending = FALSE]
  /\ UNCHANGED <<opened, ota_g_device, info, app>>

\* The caller has taken the settled promise; the task may call again.
Return(p) ==
  /\ task[p].pc = "done"
  /\ task' = [task EXCEPT ![p] = IdleTask]
  /\ UNCHANGED <<opened, session>>

\* The application opens or closes the HID device (HIDDevice.open / close).
DeviceOpen ==
  /\ ~opened
  /\ opened' = TRUE
  /\ UNCHANGED <<task, session>>

DeviceClose ==
  /\ opened
  /\ opened' = FALSE
  /\ UNCHANGED <<task, session>>

(***************************************************************************)
(* otaOpen and otaClose.                                                   *)
(***************************************************************************)
\* "init"
InitText == <<105, 110, 105, 116>>

\* otaOpen(device) up to its first await: of device.open() when the device
\* is not opened, of the first transport call of otaSend(device, 'init')
\* otherwise.
OtaOpen(p, dev) ==
  /\ task[p].pc = "idle"
  /\ LET t == [IdleTask EXCEPT !.caller = "open", !.device = dev] IN
     IF dev = "null"
       THEN /\ task' = [task EXCEPT ![p] =
                          Settle(t, Rejected("Error", Message("noDeviceSpecified", <<>>)))]
            /\ UNCHANGED <<ota_g_device, info, app>>
     ELSE IF ~opened
       THEN /\ task' = [task EXCEPT ![p] = [t EXCEPT !.pc = "open"]]
            /\ UNCHANGED <<ota_g_device, info, app>>
     ELSE Step(p, OtaSendCall(t, dev, opened, InitText))
  /\ UNCHANGED <<opened, hbTimer>>

\* device.open() resolves: the device is opened and otaSend(device, 'init')
\* runs up to its first await.
DeviceOpenOk(p) ==
  /\ task[p].pc = "open"
  /\ opened' = TRUE
  /\ Step(p, OtaSendCall(task[p], task[p].device, TRUE, InitText))
  /\ UNCHANGED hbTimer

\* device.open() rejects with e.
DeviceOpenFail(p, e) ==
  /\ task[p].pc = "open"
  /\ task' = [task EXCEPT ![p] =
                Settle(task[p], Rejected("Error", Message("errorOpeningDevice", e)))]
  /\ UNCHANGED <<opened, session>>

\* device.opened of the transport handed to otaClose: "hid" is the device
\* whose state is opened; "hid2" is a second transport, never opened.
DeviceOpened(dev) == dev = "hid" /\ opened

\* OtaClose without the test of device.opened.
OtaClose_AlwaysCloses(p, dev) ==
  /\ task[p].pc = "idle"
  /\ LET t == [IdleTask EXCEPT !.caller = "close", !.device = dev] IN
     IF dev = "null"
       THEN /\ task' = [task EXCEPT ![p] =
                          Settle(t, Rejected("Error", Message("noDeviceSpecified", <<>>)))]
            /\ UNCHANGED ota_g_device
     ELSE /\ ota_g_device' = "null"
          /\ task' = [task EXCEPT ![p] = [t EXCEPT !.pc = "close"]]
  /\ UNCHANGED <<opened, info, hbTimer, app>>

\* otaClose(device) up to its await of device.close(), or to its end when
\* the device is not opened.
OtaClose(p, dev) ==
  /\ task[p].pc = "idle"
  /\ LET t == [IdleTask EXCEPT !.caller = "close", !.device = dev] IN
     IF dev = "null"
       THEN /\ task' = [task EXCEPT ![p] =
                          Settle(t, Rejected("Error", Message("noDeviceSpecified", <<>>)))]
            /\ UNCHANGED ota_g_device
     ELSE /\ ota_g_device' = "null"
          /\ task' = [task EXCEPT ![p] =
                        IF DeviceOpened(dev) THEN [t EXCEPT !.pc = "close"]
                        ELSE Settle(t, Resolved("undefined", 0))]
  /\ UNCHANGED <<opened, info, hbTimer, app>>

\* device.close() resolves: the device is closed and otaClose returns.
DeviceCloseOk(p) ==
  /\ task[p].pc = "close"
  /\ opened' = FALSE
  /\ task' = [task EXCEPT ![p] = Settle(task[p], Resolved("undefined", 0))]
  /\ UNCHANGED session

\* device.close() rejects with e.
DeviceCloseFail(p, e) ==
  /\ task[p].pc = "close"
  /\ task' = [task EXCEPT ![p] =
                Settle(task[p], Rejected("Error", Message("errorClosingDevice", e)))]
  /\ UNCHANGED <<opened, session>>

(***************************************************************************)
(* hbTimer and sendHB.                                                     *)
(***************************************************************************)
\* "hb"
HbText == <<104, 98>>

NoTimer == [id |-> 0, pending |-> FALSE, device |-> "null"]

\* hbTimer.clear(): a timeout named by id is cancelled and id set to null.
HbTimerClear ==
  /\ hbTimer.id # 0
  /\ hbTimer' = NoTimer
  /\ UNCHANGED <<opened, task, ota_g_device, info, app>>

\* hbTimer.arm(device): the timeout named by id is cancelled (id is kept);
\* a new timeout is set when the device is there and opened.
HbTimerArm(dev) ==
  /\ hbTimer' = IF dev # "null" /\ opened
                  THEN [id |-> 1, pending |-> TRUE, device |-> dev]
                ELSE [hbTimer EXCEPT !.pending = FALSE]
  /\ UNCHANGED <<opened, task, ota_g_device, info, app>>

\* The timeout fires (id keeps naming it): sendHB(device) runs
\* otaSend(device, 'hb') up to its first await.
HbTimerFire(p) ==
  /\ hbTimer.pending
  /\ task[p].pc = "idle"
  /\ hbTimer' = [hbTimer EXCEPT !.pending = FALSE]
  /\ Step(p, OtaSendCall([IdleTask EXCEPT !.caller = "hb"], hbTimer.device, opened, HbText))
  /\ UNCHANGED opened

(***************************************************************************)
(* The application: startTwoSecondSample and disconnectDevice.             *)
(***************************************************************************)
\* "sensor_stream on" and "sensor_stream off"
StreamOnText ==
  <<115, 101, 110, 115, 111, 114, 95, 115, 116, 114, 101, 97, 109, 32, 111, 110>>
StreamOffText ==
  <<115, 101, 110, 115, 111, 114, 95, 115, 116, 114, 101, 97, 109, 32, 111, 102, 102>>

\* startTwoSecondSample up to its await of the three-second countdown, with
\* no other sampling flow under way.  The flow keeps the device it was
\* started with, "hid".
StartTwoSecondSample ==
  /\ app.device # "null"
  /\ app.timer = "none"
  /\ \A q \in Tasks : task[q].caller \notin {"on", "off"}
  /\ app' = [app EXCEPT !.timer = "countdown"]
  /\ UNCHANGED <<opened, task, ota_g_device, info, hbTimer>>

\* The countdown is over: ota.send(device, "sensor_stream on") runs up to
\* its first await.
CountdownDone(p) ==
  /\ app.timer = "countdown"
  /\ task[p].pc = "idle"
  /\ StepFrom(p, OtaSendCall([IdleTask EXCEPT !.caller = "on"], "hid", opened, StreamOnText),
              [app EXCEPT !.timer = "none"])
  /\ UNCHANGED <<opened, hbTimer>>

\* The two-second timeout fires: ota.send(device, "sensor_stream off") runs
\* up to its first await.
StopTimerFire(p) ==
  /\ app.timer = "stop"
  /\ task[p].pc = "idle"
  /\ StepFrom(p, OtaSendCall([IdleTask EXCEPT !.caller = "off"], "hid", opened, StreamOffText),
              [app EXCEPT !.timer = "none"])
  /\ UNCHANGED <<opened, hbTimer>>

\* disconnectDevice up to the first await of ota.close(device).
DisconnectDevice(p) ==
  /\ app.device # "null"
  /\ OtaClose(p, app.device)

\* disconnectDevice after ota.close(device) has returned: device.close()
\* resolves and the state setters run.
DisconnectDone(p) ==
  /\ task[p].pc = "done"
  /\ task[p].caller = "close"
  /\ task[p].result.state = "resolved"
  /\ opened' = FALSE
  /\ app' = [app EXCEPT !.device = "null", !.isStreaming = FALSE]
  /\ task' = [task EXCEPT ![p] = IdleTask]
  /\ UNCHANGED <<ota_g_device, info, hbTimer>>

\* A settled call is taken by its caller; a close that returned is taken by
\* DisconnectDone.
AppReturn(p) ==
  /\ task[p].caller = "close" => task[p].result.state = "rejected"
  /\ Return(p)

(***************************************************************************)
(* Inputs.                                                                 *)
(***************************************************************************)
Devices == {"null", "hid"}
\* What a rejected transport call carries, as String(err) renders it.
TransportErrors == {<<78, 101, 116>>}

\* A command text of n code units: lower-case letters, and for k > 1 an
\* e-acute (2 bytes in UTF-8) or a euro sign (3 bytes) at every fifth place.
TextOf(n, k) ==
  [i \in 1..n |-> IF k > 1 /\ i % 5 = 0 THEN (IF i % 2 = 0 THEN 233 ELSE 8364)
                  ELSE 97 + (i % 26)]

TxLengths == {WriteMaxData * (c - 1) + r : c \in 1..MaxChunks, r \in {1, 22, 238, 239}}
TxTexts == {TextOf(n, k) : n \in TxLengths, k \in 1..2} \cup {<<>>}

\* An incoming feature report: report id, 0x00, 0xFF, msgType, length, payload.
InFrame(msgType, len, payload) ==
  <<OTA_FR_id, 0, 255, msgType, len % 256, (len \div 256) % 256>> \o payload

\* Payloads of the receiver checks: "", "tr", "ue" with zero padding, "1",
\* and an e-acute with zero padding.
RxPayloads == {<<>>, <<116, 114>>, <<117, 101, 0, 0>>, <<49>>, <<195, 169, 0>>}
RxFrames ==
  {InFrame(m, len, pl) : m \in {0, 1, 2, 3, 4, 5, 6, 9}, len \in {0, 2, 4}, pl \in RxPayloads}
    \cup {<<OTA_FR_id, 0, 255, 0>>}
\* The device on the far side of a loop-back: it returns written frame k as
\* the k-th incoming report, behind the report id.
LoopbackFrame(t) == <<t.sent[t.reads + 1].reportId>> \o t.sent[t.reads + 1].data

(***************************************************************************)
(* Specifications.                                                         *)
(***************************************************************************)
\* The module as loaded: nothing attached, no timer.
InitSession ==
  /\ ota_g_device = "null"
  /\ info = NoResult
  /\ hbTimer = NoTimer
  /\ app = NoApp

Init ==
  /\ opened = FALSE
  /\ task = [p \in Tasks |-> IdleTask]
  /\ InitSession

InitOpened ==
  /\ opened = TRUE
  /\ task = [p \in Tasks |-> IdleTask]
  /\ InitSession

\* Transmitter: one task sends each command of TxTexts.
NextTx ==
  \/ \E dev \in Devices, data \in TxTexts : OtaSend(1, dev, data)
  \/ SendFeatureReportOk(1)
  \/ \E e \in TransportErrors : SendFeatureReportFail(1, e)

SpecTx == InitOpened /\ [][NextTx]_vars

\* Receiver: one task sends "hb" and the device answers with any frames.
NextRx ==
  \/ OtaSend(1, "hid", HbText)
  \/ SendFeatureReportOk(1)
  \/ \E dv \in RxFrames : task[1].reads < MaxReads /\ ReceiveFeatureReportOk(1, dv)
  \/ \E e \in TransportErrors : ReceiveFeatureReportFail(1, e)

SpecRx == InitOpened /\ [][NextRx]_vars

\* Loop-back: the frames one task wrote are returned to its receive loop.
NextLoop ==
  \/ \E data \in TxTexts : OtaSend(1, "hid", data)
  \/ SendFeatureReportOk(1)
  \/ /\ task[1].pc = "read"
     /\ task[1].reads < Len(task[1].sent)
     /\ ReceiveFeatureReportOk(1, LoopbackFrame(task[1]))

SpecLoop == InitOpened /\ [][NextLoop]_vars

\* The engine: every task may call otaSend at any time, the device answers
\* with any frame, and the application opens and closes the device.
\* Commands: the empty text and one of two chunks.  Frames: ACK_NRSP, ACK_RSP,
\* NACK "1" and RESULT "1".
EngineTexts == {<<>>, TextOf(WriteMaxData + 1, 1)}
EngineFrames ==
  {InFrame(2, 0, <<>>), InFrame(3, 0, <<>>), InFrame(4, 1, <<49>>), InFrame(6, 1, <<49>>)}

Next ==
  \/ \E p \in Tasks, dev \in Devices, data \in EngineTexts : OtaSend(p, dev, data)
  \/ \E p \in Tasks : SendFeatureReportOk(p)
  \/ \E p \in Tasks, e \in TransportErrors : SendFeatureReportFail(p, e)
  \/ \E p \in Tasks, dv \in EngineFrames :
       task[p].reads < EngineReads /\ ReceiveFeatureReportOk(p, dv)
  \/ \E p \in Tasks, e \in TransportErrors : ReceiveFeatureReportFail(p, e)
  \/ \E p \in Tasks : Return(p)
  \/ DeviceOpen
  \/ DeviceClose

Spec == Init /\ [][Next]_vars

\* The session: every task may call otaOpen, otaClose or otaSend("hb") at
\* any time, the application opens and closes the device itself as well, and
\* the device answers with RESULT "1", NACK "1" or ACK_RSP.  Nothing in the
\* program calls hbTimer.arm, so no timeout is ever set.
SessionFrames == {InFrame(6, 1, <<49>>), InFrame(4, 1, <<49>>), InFrame(3, 0, <<>>)}

NextSession ==
  \/ \E p \in Tasks, dev \in Devices : OtaOpen(p, dev)
  \/ \E p \in Tasks : DeviceOpenOk(p)
  \/ \E p \in Tasks, e \in TransportErrors : DeviceOpenFail(p, e)
  \/ \E p \in Tasks, dev \in Devices : OtaClose(p, dev)
  \/ \E p \in Tasks : DeviceCloseOk(p)
  \/ \E p \in Tasks, e \in TransportErrors : DeviceCloseFail(p, e)
  \/ \E p \in Tasks : OtaSend(p, "hid", HbText)
  \/ \E p \in Tasks : SendFeatureReportOk(p)
  \/ \E p \in Tasks, e \in TransportErrors : SendFeatureReportFail(p, e)
  \/ \E p \in Tasks, dv \in SessionFrames :
       task[p].reads < EngineReads /\ ReceiveFeatureReportOk(p, dv)
  \/ \E p \in Tasks, e \in TransportErrors : ReceiveFeatureReportFail(p, e)
  \/ \E p \in Tasks : Return(p)
  \/ DeviceOpen
  \/ DeviceClose

SpecSession == Init /\ [][NextSession]_vars

\* The keep-alive, were it armed: the device is attached by an otaOpen that
\* got RESULT "1"; hbTimer.arm and hbTimer.clear are called at any time, the
\* timeout fires, the device answers the heartbeat with any frames, and the
\* application may close and open the device.
InitAttached ==
  /\ opened = TRUE
  /\ task = [p \in Tasks |-> IdleTask]
  /\ ota_g_device = "hid"
  /\ info = Resolved("number", 1)
  /\ hbTimer = NoTimer
  /\ app = NoApp

NextHb ==
  \/ \E dev \in Devices : HbTimerArm(dev)
  \/ HbTimerClear
  \/ HbTimerFire(1)
  \/ SendFeatureReportOk(1)
  \/ \E e \in TransportErrors : SendFeatureReportFail(1, e)
  \/ \E dv \in RxFrames : task[1].reads < MaxReads /\ ReceiveFeatureReportOk(1, dv)
  \/ \E e \in TransportErrors : ReceiveFeatureReportFail(1, e)
  \/ Return(1)
  \/ DeviceOpen
  \/ DeviceClose

SpecHb == InitAttached /\ [][NextHb]_vars

\* Long command: one task sends a command of euro signs (3 bytes each in
\* UTF-8) whose encoding is longer than the length field of the header can
\* hold, by 3 bytes at most.
LongTexts == {[i \in 1..(MaxDeclared \div 3 + 1) |-> 8364]}

NextLong ==
  \/ \E data \in LongTexts : OtaSend(1, "hid", data)
  \/ SendFeatureReportOk(1)
  \/ \E e \in TransportErrors : SendFeatureReportFail(1, e)

SpecLong == InitOpened /\ [][NextLong]_vars

\* The keep-alive beside user sends: the device is attached, the timer is
\* armed from outside at any time, and every task may run a user send of a
\* two-chunk command or the heartbeat the timeout starts.
NextKeepAlive ==
  \/ HbTimerArm("hid")
  \/ \E p \in Tasks : HbTimerFire(p)
  \/ \E p \in Tasks : OtaSend(p, "hid", TextOf(WriteMaxData + 1, 1))
  \/ \E p \in Tasks : SendFeatureReportOk(p)
  \/ \E p \in Tasks, dv \in EngineFrames :
       task[p].reads < EngineReads /\ ReceiveFeatureReportOk(p, dv)
  \/ \E p \in Tasks : Return(p)

SpecKeepAlive == InitAttached /\ [][NextKeepAlive]_vars

(***************************************************************************)
(* Properties.                                                             *)
(***************************************************************************)
\* The fields of a written frame, as the transport sees them.
SentMsgType(f) == f.data[3]
SentDeclared(f) == f.data[4] + 256 * f.data[5]
\* The first n payload bytes of a written frame.
SentChunk(f, n) == SubSeq(f.data, WriteHeaderLength + 1, WriteHeaderLength + n)

\* A transport call of task q completes in this step.
TransportCall(q) ==
  \/ SendFeatureReportOk(q)
  \/ \E e \in TransportErrors : SendFeatureReportFail(q, e)
  \/ \E dv \in EngineFrames : ReceiveFeatureReportOk(q, dv)
  \/ \E e \in TransportErrors : ReceiveFeatureReportFail(q, e)

\* Task p is between the first write of its send and the last transport call
\* of that send: it has written a frame and awaits a further write or a read.
InExchange(p) ==
  \/ task[p].pc = "write" /\ task[p].chunkIndex >= 1
  \/ task[p].pc = "read"

\* C1: two sends issued concurrently on the same transport never interleave:
\* while one send is between its first write and its last read (or failure),
\* no transport write or read of another send takes place.
C1_NoInterleaving ==
  [][\A p \in Tasks, q \in Tasks :
       (p # q /\ InExchange(p)) => ~TransportCall(q)]_vars

\* C2: the first frame a send writes carries FIRST (0), every later frame of
\* that send carries MID (1); no send writes a second FIRST frame.
C2_FirstThenMid ==
  \A p \in Tasks : \A k \in 1..Len(task[p].sent) :
    SentMsgType(task[p].sent[k]) = (IF k = 1 THEN 0 ELSE 1)

C2_Witness ==
  \E p \in Tasks : Len(task[p].sent) >= 3

\* The number of chunks of an encoded command of L bytes, and the length of
\* chunk k of n.
ChunkCount(L) == (L + WriteMaxData - 1) \div WriteMaxData
ExpectedChunkLen(L, k) ==
  IF k < ChunkCount(L) THEN WriteMaxData ELSE L - WriteMaxData * (ChunkCount(L) - 1)

\* The send of task p has written all its chunks.
AllWritten(p) ==
  /\ task[p].pc \in {"read", "done"}
  /\ Len(task[p].uint8Array) >= 1
  /\ task[p].offset = Len(task[p].uint8Array)

\* C3: a send of L >= 1 encoded bytes whose writes all succeed writes exactly
\* ceil(L/239) frames; every chunk but the last carries 239 bytes of the
\* command, the last carries the L - 239*(n-1) bytes left, and the chunks in
\* write order make up the encoded command.
C3_Chunking ==
  \A p \in Tasks :
    AllWritten(p) =>
      LET L == Len(task[p].uint8Array)
          n == Len(task[p].sent)
      IN /\ n = ChunkCount(L)
         /\ \A k \in 1..n :
              SentChunk(task[p].sent[k], ExpectedChunkLen(L, k))
                = SubSeq(task[p].uint8Array, WriteMaxData * (k - 1) + 1,
                         WriteMaxData * (k - 1) + ExpectedChunkLen(L, k))
         /\ Flatten([k \in 1..n |-> SentChunk(task[p].sent[k], ExpectedChunkLen(L, k))],
                    1, n) = task[p].uint8Array
         /\ (L <= WriteMaxData => n = 1 /\ SentMsgType(task[p].sent[1]) = 0)

\* A 500-byte command went out as three frames with chunks of 239, 239 and 22.
C3_Witness ==
  \E p \in Tasks :
    /\ AllWritten(p)
    /\ Len(task[p].uint8Array) = 500
    /\ Len(task[p].sent) = 3
    /\ ExpectedChunkLen(500, 3) = 22

\* C4, as the spec states it: the declared length is the same in every chunk
\* of a message and equals the full encoded message length.
C4_SameInEveryChunk ==
  \A p \in Tasks : \A k \in 1..Len(task[p].sent) :
    SentDeclared(task[p].sent[k]) = Len(task[p].uint8Array)

\* C4, amended: the first chunk declares the full encoded message length, not
\* the chunk length; every later chunk declares less than the full length, so
\* the field is the same in every chunk only for a message of one chunk.
C4_FirstDeclaresTotal ==
  \A p \in Tasks : \A k \in 1..Len(task[p].sent) :
    /\ k = 1 => SentDeclared(task[p].sent[k]) = Len(task[p].uint8Array)
    /\ k > 1 => SentDeclared(task[p].sent[k]) < Len(task[p].uint8Array)

\* A first chunk of 239 bytes declares more than its own length.
C4_Witness ==
  \E p \in Tasks :
    /\ Len(task[p].sent) >= 2
    /\ SentDeclared(task[p].sent[1]) > WriteMaxData

\* C5: each chunk's header declares the bytes not yet sent at the start of
\* that chunk, so successive declared lengths decrease by the length of the
\* chunk before.
C5_DeclaresUnsent ==
  \A p \in Tasks : \A k \in 1..Len(task[p].sent) :
    LET L == Len(task[p].uint8Array) IN
    /\ SentDeclared(task[p].sent[k]) = L - WriteMaxData * (k - 1)
    /\ k > 1 => SentDeclared(task[p].sent[k])
                  = SentDeclared(task[p].sent[k - 1]) - ExpectedChunkLen(L, k - 1)

C5_Witness ==
  \E p \in Tasks :
    /\ Len(task[p].sent) = 3
    /\ SentDeclared(task[p].sent[3]) = 22

\* C6: the receive loop, fed the frames the transmitter wrote for a text,
\* reads exactly those frames, stops after the last one with remaining = 0,
\* and has accumulated the original text.
C6_RoundTrip ==
  \A p \in Tasks :
    LET t == task[p] IN
    t.reads >= 1 =>
      IF t.reads < Len(t.sent) THEN t.pc = "read"
      ELSE t.pc = "done" /\ t.remaining = 0 /\ t.acc = t.data

\* The last frame the transport returned to t, when it has a whole header.
HasFrame(t) == t.reads >= 1 /\ Len(t.dv) >= ReadHeaderLength
LastMsgType(t) == MsgTypeOf(t.dv)
\* The call ended because a read was rejected.
ReadFailed(t) == t.pc = "done" /\ t.result.msg.tpl = "errorReceivingFeatureReport"
\* The receive loop ended after the frame t.dv.
LoopEnded(t) == HasFrame(t) /\ t.pc = "done" /\ ~ReadFailed(t)

\* C7: the loop ends after a frame exactly when the frame is ACK_NRSP, RESULT,
\* NACK, EMPTY, of unknown type, or a FIRST/MID that leaves remaining = 0, and
\* reads again exactly when it is ACK_RSP or a FIRST/MID that leaves
\* remaining > 0; ACK_NRSP, RESULT and remaining = 0 lead to success, NACK,
\* EMPTY and unknown type to failure.  (A final payload that does not parse is
\* not counted against success here.)
C7_TerminalFrames ==
  \A p \in Tasks :
    LET t == task[p]
        m == LastMsgType(t)
        ends == m \in {2, 4, 5, 6} \/ m \notin 0..6 \/ (m \in {0, 1} /\ t.remaining = 0)
    IN HasFrame(t) =>
         /\ ends => LoopEnded(t)
         /\ ~ends => (t.pc = "read" \/ ReadFailed(t))
         /\ (LoopEnded(t) /\ m \in {0, 1, 2, 6}) =>
              (t.result.state = "resolved" \/ t.result.name = "SyntaxError")
         /\ (LoopEnded(t) /\ m \notin {0, 1, 2, 3, 6}) => t.result.state = "rejected"

\* C8: after an ACK_RSP frame the receiver is awaiting another read, whatever
\* the frame declares and carries, and the frame changes neither the
\* accumulated payload nor the recorded error; the receive loop never ends
\* on an ACK_RSP frame.
C8_AckRspReadsOn ==
  /\ [](\A p \in Tasks : LoopEnded(task[p]) => LastMsgType(task[p]) # 3)
  /\ [][\A p \in Tasks :
       (/\ task'[p].reads = task[p].reads + 1
        /\ Len(task'[p].dv) >= ReadHeaderLength
        /\ MsgTypeOf(task'[p].dv) = 3)
         => /\ task'[p].pc = "read"
            /\ task'[p].acc = task[p].acc
            /\ task'[p].error = task[p].error]_vars

\* An ACK_RSP with a declared length and a payload arrived after payload text
\* had been accumulated.
C8_Witness ==
  \E p \in Tasks :
    /\ HasFrame(task[p])
    /\ LastMsgType(task[p]) = 3
    /\ ReportLength(task[p].dv) > 0
    /\ Len(FrameData(task[p].dv)) > 0
    /\ Len(task[p].acc) > 0
    /\ task[p].pc = "read"

\* C9: after a NACK frame with payload text p the send fails with exactly the
\* message p, whatever had been accumulated before.
C9_NackFails ==
  \A p \in Tasks :
    (LoopEnded(task[p]) /\ LastMsgType(task[p]) = 4) =>
      task[p].result = Rejected("Error", Message("text", FrameData(task[p].dv)))

\* C10: when the loop recorded an error, the exchange fails with that
\* message and with no other error, whatever payload was accumulated.
C10_RecordedErrorWins ==
  \A p \in Tasks :
    (LoopEnded(task[p]) /\ Truthy(task[p].error)) =>
      task[p].result = Rejected("Error", task[p].error)

\* C11: an exchange whose only received frame is ACK_NRSP with empty payload
\* succeeds after exactly one read with the empty result, the accumulated
\* payload still empty and unparsed (a parse of the empty text would throw).
C11_AckNrspEmptyResult ==
  \A p \in Tasks :
    LET t == task[p] IN
    (t.reads = 1 /\ HasFrame(t) /\ LastMsgType(t) = 2 /\ PayloadOf(t.dv) = <<>>) =>
      /\ t.pc = "done"
      /\ t.result = Resolved("string", 0)
      /\ t.acc = <<>>

\* The exchange of "hb" ended on a single empty ACK_NRSP frame.
C11_Witness ==
  \E p \in Tasks :
    /\ task[p].reads = 1
    /\ task[p].dv = InFrame(2, 0, <<>>)
    /\ task[p].pc = "done"
    /\ Len(task[p].sent) = 1

\* C12: a frame whose type byte is outside 0..6 ends the exchange after that
\* frame and send fails with the unknown-message-type error holding the
\* decimal value of the byte; a frame of type EMPTY (5) ends the exchange
\* with the fixed empty-response error.
C12_UnknownAndEmpty ==
  \A p \in Tasks :
    LET t == task[p]
        m == LastMsgType(t)
    IN HasFrame(t) =>
         /\ m \notin 0..6 =>
              /\ t.pc = "done"
              /\ t.result = Rejected("Error", Message("unknownMessageType", Decimal(m)))
         /\ m = 5 =>
              /\ t.pc = "done"
              /\ t.result = Rejected("Error", Message("emptyResponse", <<>>))

\* Task p calls otaSend in this step (from outside the engine).
CallsSend(p) == task[p].pc = "idle" /\ task'[p].pc # "idle" /\ task'[p].caller = "send"
\* How a call that settled before its first await looks: nothing written,
\* nothing read.
FailedAtCall(t, tpl) ==
  t = Settle([IdleTask EXCEPT !.device = t.device, !.data = t.data],
             Rejected("Error", Message(tpl, <<>>)))

\* C13: send on a null transport fails with noConnectedDevice and send on a
\* transport that is not opened fails with deviceNotOpened, in both cases
\* within the call itself, with no transport write or read; the null check
\* comes first (whatever opened is) and the opened check comes before the
\* check of the command text (whatever the text is).
C13_SendPreconditions ==
  [][\A p \in Tasks :
       CallsSend(p) =>
         /\ task'[p].device = "null" => FailedAtCall(task'[p], "noConnectedDevice")
         /\ (task'[p].device # "null" /\ ~opened) =>
              FailedAtCall(task'[p], "deviceNotOpened")]_vars

\* A send of the empty text on a device that was not opened failed with
\* deviceNotOpened, and a send on the null device failed while the device
\* was opened.
C13_Witness ==
  /\ \E p \in Tasks :
       /\ task[p].data = <<>>
       /\ FailedAtCall(task[p], "deviceNotOpened")
       /\ task[p].device # "null"
  /\ \E p \in Tasks : FailedAtCall(task[p], "noConnectedDevice") /\ opened

\* C14: send with an empty command text on an open transport fails with the
\* error of the empty-command check (the spec's DataTooLong / "no data" kind;
\* the text thrown is 'No data') within the call itself, before any
\* transport write or read, so no FIRST frame declaring length 0 is ever
\* written.
C14_EmptyCommandFails ==
  /\ [][\A p \in Tasks :
          (CallsSend(p) /\ task'[p].device # "null" /\ opened /\ task'[p].data = <<>>) =>
            FailedAtCall(task'[p], "No data")]_vars
  /\ [](\A p \in Tasks : \A k \in 1..Len(task[p].sent) :
          ~(SentMsgType(task[p].sent[k]) = 0 /\ SentDeclared(task[p].sent[k]) = 0))

\* A send of the empty text on the opened device has failed with 'No data'.
C14_Witness ==
  \E p \in Tasks :
    /\ task[p].data = <<>>
    /\ task[p].device # "null"
    /\ FailedAtCall(task[p], "No data")

\* C15, as the spec states it: the accumulated payload is never longer than
\* the declared length of the most recent FIRST/MID frame (stated here for
\* the states in which that frame is the last frame read).
C15_AccWithinDeclared ==
  \A p \in Tasks :
    LET t == task[p] IN
    (HasFrame(t) /\ LastMsgType(t) \in {0, 1}) => Len(t.acc) <= ReportLength(t.dv)

\* C15, amended: every FIRST/MID frame extends the accumulated payload by at
\* most the length that frame declares; the accumulated payload as a whole
\* may be longer than the length the latest frame declares.
C15_FrameWithinDeclared ==
  [][\A p \in Tasks :
       (/\ task'[p].reads = task[p].reads + 1
        /\ Len(task'[p].dv) >= ReadHeaderLength
        /\ MsgTypeOf(task'[p].dv) \in {0, 1})
         => /\ Len(task'[p].acc) - Len(task[p].acc) <= ReportLength(task'[p].dv)
            /\ SubSeq(task'[p].acc, 1, Len(task[p].acc)) = task[p].acc]_vars

\* A FIRST/MID frame with more payload than it declares was cut to the
\* declared length, behind payload accumulated before.
C15_Witness ==
  \E p \in Tasks :
    LET t == task[p] IN
    /\ HasFrame(t)
    /\ LastMsgType(t) \in {0, 1}
    /\ t.reads >= 2
    /\ Len(TextDecode(PayloadOf(t.dv))) > ReportLength(t.dv)
    /\ ReportLength(t.dv) > 0
    /\ Len(t.acc) > ReportLength(t.dv)

\* Task p calls otaOpen or otaClose in this step, or its call settles.
CallsOpen(p) == task[p].pc = "idle" /\ task'[p].pc # "idle" /\ task'[p].caller = "open"
CallsClose(p) == task[p].pc = "idle" /\ task'[p].pc # "idle" /\ task'[p].caller = "close"
Settles(p, caller, state) ==
  /\ task[p].pc # "done"
  /\ task'[p].pc = "done"
  /\ task'[p].caller = caller
  /\ task'[p].result.state = state

\* C16: otaOpen on a non-null transport awaits the transport's open exactly
\* when the transport is not opened; the one exchange it performs sends the
\* single frame FIRST "init"; when it succeeds it has read at least one
\* frame, returns the parsed response and stores the transport in ota_g (and
\* the response on the device) in that very step; ota_g.device is set at no
\* other step, so not before the init exchange has succeeded.
C16_OpenAttachesAfterInit ==
  [][/\ \A p \in Tasks :
          /\ (CallsOpen(p) /\ task'[p].device # "null") =>
               (task'[p].pc = "open" <=> ~opened)
          /\ (task'[p].caller = "open" /\ task'[p].pc \in {"write", "read"}) =>
               /\ task'[p].data = InitText
               /\ Len(task'[p].sent) <= 1
          /\ Settles(p, "open", "resolved") =>
               LET t == task'[p] IN
               /\ Len(t.sent) = 1
               /\ SentMsgType(t.sent[1]) = 0
               /\ SentDeclared(t.sent[1]) = Len(InitText)
               /\ SentChunk(t.sent[1], Len(InitText)) = InitText
               /\ t.reads >= 1
               /\ Len(t.acc) > 0 =>
                    t.result = Resolved(JSONParse(t.acc).t, JSONParse(t.acc).n)
               /\ ota_g_device' = t.device
               /\ info' = t.result
     /\ ota_g_device' \notin {"null", ota_g_device} =>
          \E q \in Tasks : Settles(q, "open", "resolved") /\ task[q].pc = "read"]_vars

\* otaOpen has opened the device itself, sent "init", got RESULT "1" and
\* attached the device.
C16_Witness ==
  \E p \in Tasks :
    /\ task[p].caller = "open"
    /\ task[p].pc = "done"
    /\ task[p].result = Resolved("number", 1)
    /\ ota_g_device = task[p].device
    /\ info = Resolved("number", 1)
    /\ opened

\* C17, as the spec states it: otaClose called while no session is active
\* performs no transport call and changes no state.
C17_NoSessionNoEffect ==
  [][\A p \in Tasks :
       (CallsClose(p) /\ task'[p].device # "null" /\ ota_g_device = "null") =>
         /\ task'[p].pc = "done"
         /\ UNCHANGED <<opened, ota_g_device, info, hbTimer>>]_vars

\* C17, amended: otaClose on a transport that is not opened (as it is after a
\* close that returned successfully) returns within the call with no
\* transport call and changes nothing but ota_g.device, which it sets to
\* null; only on an opened transport does it await the transport's close,
\* active session or not.
C17_CloseOfClosedIsNoop ==
  [][\A p \in Tasks :
       (CallsClose(p) /\ task'[p].device # "null") =>
         /\ ~opened =>
              /\ task'[p].pc = "done"
              /\ task'[p].result = Resolved("undefined", 0)
              /\ ota_g_device' = "null"
              /\ UNCHANGED <<opened, info, hbTimer>>
         /\ opened => task'[p].pc = "close"]_vars

\* A close on the transport a close had closed before, session detached,
\* has returned.
C17_Witness ==
  \E p \in Tasks :
    /\ task[p].caller = "close"
    /\ task[p].device # "null"
    /\ task[p].pc = "done"
    /\ task[p].result = Resolved("undefined", 0)
    /\ ~opened
    /\ ota_g_device = "null"
    /\ info # NoResult

\* C18: when otaClose on a non-null transport returns successfully,
\* ota_g.device is null, the transport is not opened and no keep-alive
\* timeout is pending; otaClose on a null transport fails with
\* noDeviceSpecified and changes nothing.
C18_AfterClose ==
  [][\A p \in Tasks :
       /\ Settles(p, "close", "resolved") =>
            /\ ota_g_device' = "null"
            /\ ~opened'
            /\ ~hbTimer'.pending
       /\ (CallsClose(p) /\ task'[p].device = "null") =>
            /\ task'[p].pc = "done"
            /\ task'[p].result = Rejected("Error", Message("noDeviceSpecified", <<>>))
            /\ UNCHANGED <<opened, ota_g_device, info, hbTimer>>]_vars

\* C19: whatever the otaSend of a heartbeat does (fails at its precondition,
\* at a write, at a read, on a NACK, EMPTY or unknown frame, on a payload
\* that does not parse, or succeeds), sendHB completes without raising, and
\* no step of the heartbeat changes ota_g.device or closes the transport.
C19_HeartbeatAbsorbed ==
  [][\A p \in Tasks :
       (task'[p].caller = "hb" /\ task'[p] # task[p]) =>
         /\ task'[p].pc = "done" => task'[p].result = Resolved("undefined", 0)
         /\ UNCHANGED <<opened, ota_g_device, info>>]_vars

\* A heartbeat that was answered with a frame of unknown type behind a
\* payload that does not parse has completed, the device still attached.
C19_Witness ==
  \E p \in Tasks :
    LET t == task[p] IN
    /\ t.caller = "hb"
    /\ t.pc = "done"
    /\ HasFrame(t)
    /\ LastMsgType(t) = 9
    /\ t.error = Message("unknownMessageType", <<57>>)
    /\ Len(t.acc) > 0
    /\ ~JSONParse(t.acc).ok
    /\ t.result = Resolved("undefined", 0)
    /\ ota_g_device = "hid"
    /\ opened

\* C20: a send whose encoded command is longer than 65535 bytes fails
\* instead of writing frames, and the 16-bit little-endian length field of
\* every frame a send writes equals the length that frame is to declare, the
\* bytes not yet sent, with no wrap-around modulo 2^16.
C20_NoWrapAround ==
  \A p \in Tasks :
    /\ Len(task[p].uint8Array) > MaxDeclared =>
         /\ task[p].pc = "done"
         /\ task[p].result.state = "rejected"
         /\ task[p].sent = <<>>
    /\ \A k \in 1..Len(task[p].sent) :
         SentDeclared(task[p].sent[k])
           = Len(task[p].uint8Array) - WriteMaxData * (k - 1)

\* C21: an incoming frame shorter than 6 bytes raises no out-of-range
\* exception: the receiver goes on with an empty payload, or the send fails
\* with an error of the engine's own.
C21_ShortFrameHandled ==
  \A p \in Tasks :
    (task[p].reads >= 1 /\ Len(task[p].dv) < ReadHeaderLength) =>
      ~(task[p].pc = "done" /\ task[p].result.name = "RangeError")

C24_WritesThenReads ==
  \A p \in Tasks :
    LET t == task[p]
        L == Len(t.uint8Array)
    IN /\ t.pc = "write" =>
            /\ Len(t.sent) = t.chunkIndex
            /\ t.offset = WriteMaxData * t.chunkIndex
            /\ t.offset < L
            /\ t.reads = 0
       /\ (t.pc = "read" \/ t.reads >= 1) =>
            /\ t.offset = L
            /\ Len(t.sent) = ChunkCount(L)
       /\ \A k \in 1..Len(t.sent) :
            SentChunk(t.sent[k], Min(WriteMaxData, L - WriteMaxData * (k - 1)))
              = SubSeq(t.uint8Array, WriteMaxData * (k - 1) + 1,
                       Min(WriteMaxData * k, L))

\* A send of two chunks has read a frame and awaits the next, both chunks
\* written.
C24_Witness ==
  \E p \in Tasks :
    /\ task[p].pc = "read"
    /\ task[p].reads = 1
    /\ Len(task[p].sent) = 2
    /\ task[p].chunkIndex = 2

\* C25: a failed transport call ends the exchange with no retry.  The step a
\* send makes from a pending write without a frame going out is its failure
\* with the wrapped write error, and the step it makes from a pending read
\* without a frame coming in is its failure with the wrapped read error; a
\* call that has settled writes and reads nothing more.
C25_NoRetry ==
  [][\A p \in Tasks :
       /\ (task[p].pc = "write" /\ task'[p] # task[p] /\ task'[p].sent = task[p].sent) =>
            \E e \in TransportErrors :
              task'[p] = AfterSend(Settle(task[p],
                           Rejected("Error", Message("errorSendingFeatureReport", e))))
       /\ (task[p].pc = "read" /\ task'[p] # task[p] /\ task'[p].reads = task[p].reads) =>
            \E e \in TransportErrors :
              task'[p] = AfterSend(Settle(task[p],
                           Rejected("Error", Message("errorReceivingFeatureReport", e))))
       /\ task[p].pc = "done" => task'[p] \in {task[p], IdleTask}]_vars

\* One send has failed at the write of its second chunk, having written one
\* frame and read none; another has failed at its second read.
C25_Witness ==
  \E p \in Tasks, q \in Tasks :
    /\ task[p].pc = "done"
    /\ task[p].result.msg.tpl = "errorSendingFeatureReport"
    /\ task[p].chunkIndex = 1
    /\ Len(task[p].sent) = 1
    /\ task[p].offset < Len(task[p].uint8Array)
    /\ task[p].reads = 0
    /\ task[q].pc = "done"
    /\ task[q].result.msg.tpl = "errorReceivingFeatureReport"
    /\ task[q].reads = 1

\* Task p takes a frame with a whole header and the message type in types
\* in this step.
Reads(p, types) ==
  /\ task'[p].reads = task[p].reads + 1
  /\ Len(task'[p].dv) >= ReadHeaderLength
  /\ MsgTypeOf(task'[p].dv) \in types
\* The payload text of a frame cut to min(declared length, decoded length).
Truncated(dv) ==
  LET text == TextDecode(PayloadOf(dv))
  IN SubSeq(text, 1, Min(ReportLength(dv), Len(text)))

\* C26: a FIRST or MID frame appends its payload text, truncated to
\* min(declared length, decoded length), to the accumulator and sets
\* remaining to max(0, declared length - length of the truncated text);
\* remaining is never negative.
C26_FirstMidAppends ==
  /\ [](\A p \in Tasks : task[p].remaining >= 0)
  /\ [][\A p \in Tasks :
          Reads(p, {0, 1}) =>
            /\ task'[p].acc = task[p].acc \o Truncated(task'[p].dv)
            /\ task'[p].remaining
                 = Max(0, ReportLength(task'[p].dv) - Len(Truncated(task'[p].dv)))]_vars

\* A MID frame whose payload was cut to its declared length has been
\* appended behind the text of the frame before, and more is to come.
C26_Witness ==
  \E p \in Tasks :
    LET t == task[p] IN
    /\ HasFrame(t)
    /\ LastMsgType(t) = 1
    /\ t.reads = 2
    /\ Len(Truncated(t.dv)) = 2
    /\ Len(TextDecode(PayloadOf(t.dv))) = 4
    /\ Len(t.acc) = 4
    /\ t.pc = "done"

\* C27, as the spec states it: after a FIRST/MID frame, remaining is the
\* declared length of that frame less all the payload characters accumulated
\* so far in the exchange, clamped at 0.
C27_RemainingFromTotal ==
  \A p \in Tasks :
    LET t == task[p] IN
    (HasFrame(t) /\ LastMsgType(t) \in {0, 1}) =>
      t.remaining = Max(0, ReportLength(t.dv) - Len(t.acc))

\* C27, amended: after a FIRST/MID frame, remaining is the declared length
\* of that frame less the payload characters that frame itself added to the
\* accumulator, clamped at 0; what earlier frames accumulated does not count.
C27_RemainingFromFrame ==
  [][\A p \in Tasks :
       Reads(p, {0, 1}) =>
         task'[p].remaining
           = Max(0, ReportLength(task'[p].dv) - (Len(task'[p].acc) - Len(task[p].acc)))]_vars

\* A FIRST/MID frame behind accumulated text has left remaining above the
\* declared length less the accumulated total.
C27_Witness ==
  \E p \in Tasks :
    LET t == task[p] IN
    /\ HasFrame(t)
    /\ LastMsgType(t) \in {0, 1}
    /\ t.reads >= 2
    /\ Len(t.acc) > Len(Truncated(t.dv))
    /\ t.remaining > 0
    /\ t.remaining > Max(0, ReportLength(t.dv) - Len(t.acc))
    /\ t.pc = "read"

\* C28: a RESULT frame puts its own payload text in the place of whatever
\* was accumulated, and the loop ends after it.
C28_ResultReplaces ==
  /\ [](\A p \in Tasks :
          (HasFrame(task[p]) /\ LastMsgType(task[p]) = 6) => LoopEnded(task[p]))
  /\ [][\A p \in Tasks :
          Reads(p, {6}) =>
            /\ task'[p].acc = Truncated(task'[p].dv)
            /\ task'[p].pc = "done"]_vars

\* A RESULT frame "1" came in behind two frames and the send returned 1.
C28_Witness ==
  \E p \in Tasks :
    LET t == task[p] IN
    /\ t.reads = 3
    /\ HasFrame(t)
    /\ LastMsgType(t) = 6
    /\ t.acc = <<49>>
    /\ t.result = Resolved("number", 1)

\* C29: when the loop has ended with no error recorded, the send succeeds
\* with the parsed payload if the accumulated payload is not empty and
\* parses, fails with the parser's error if it is not empty and does not
\* parse, and succeeds with the empty result, nothing parsed, if it is empty.
C29_ParseOnExit ==
  \A p \in Tasks :
    LET t == task[p]
        parsed == JSONParse(t.acc)
    IN (LoopEnded(t) /\ ~Truthy(t.error)) =>
         t.result = IF t.acc = <<>> THEN Resolved("string", 0)
                    ELSE IF parsed.ok THEN Resolved(parsed.t, parsed.n)
                    ELSE Rejected("SyntaxError", Message("JSON.parse", <<>>))

\* The payload "true", accumulated from two frames, was returned as the
\* boolean true.
C29_Witness ==
  \E p \in Tasks :
    LET t == task[p] IN
    /\ LoopEnded(t)
    /\ t.acc = <<116, 114, 117, 101>>
    /\ t.result = Resolved("boolean", 1)

\* C30: every frame a send writes goes out on report id 6 and is 244 bytes
\* long: 0x00, 0xFF, the message type (FIRST for the first frame, MID for the
\* others), the declared length as 16 bits, low byte first, then the chunk of
\* the command, and nothing but zero bytes behind the chunk.
C30_FrameLayout ==
  \A p \in Tasks : \A k \in 1..Len(task[p].sent) :
    LET f == task[p].sent[k]
        L == Len(task[p].uint8Array)
        from == 239 * (k - 1)
        n == Min(239, L - from)
    IN /\ f.reportId = 6
       /\ Len(f.data) = 244
       /\ f.data[1] = 0
       /\ f.data[2] = 255
       /\ f.data[3] = (IF k = 1 THEN 0 ELSE 1)
       /\ f.data[4] = (L - from) % 256
       /\ f.data[5] = ((L - from) \div 256) % 256
       /\ \A i \in 1..n : f.data[5 + i] = task[p].uint8Array[from + i]
       /\ \A i \in (5 + n + 1)..244 : f.data[i] = 0

\* A 22-byte last chunk went out behind two full frames whose bytes at the
\* same places are not zero.
C30_Witness ==
  \E p \in Tasks :
    /\ Len(task[p].uint8Array) = 500
    /\ Len(task[p].sent) = 3
    /\ task[p].sent[2].data[244] # 0
    /\ task[p].sent[3].data[5 + 22] # 0
    /\ task[p].sent[3].data[5 + 23] = 0

\* Open and close in sequence: one caller opens a device that is not opened
\* (so that otaOpen opens it itself) and closes while the session is
\* attached to "hid", with the attached device, a second transport or none;
\* between the two it sends "hb", and the device may be closed from outside
\* at any time.
Transports == {"null", "hid", "hid2"}

NextOpenClose ==
  \/ \E dev \in Devices : ~opened /\ OtaOpen(1, dev)
  \/ DeviceOpenOk(1)
  \/ \E e \in TransportErrors : DeviceOpenFail(1, e)
  \/ \E dev \in Transports : ota_g_device = "hid" /\ OtaClose(1, dev)
  \/ DeviceCloseOk(1)
  \/ \E e \in TransportErrors : DeviceCloseFail(1, e)
  \/ OtaSend(1, "hid", HbText)
  \/ SendFeatureReportOk(1)
  \/ \E e \in TransportErrors : SendFeatureReportFail(1, e)
  \/ \E dv \in SessionFrames : task[1].reads < EngineReads /\ ReceiveFeatureReportOk(1, dv)
  \/ \E e \in TransportErrors : ReceiveFeatureReportFail(1, e)
  \/ Return(1)
  \/ DeviceClose

SpecOpenClose == Init /\ [][NextOpenClose]_vars

\* A device that may keep the receive loop going: ACK_RSP, FIRST and MID
\* declaring 4 characters and bringing none, beside the frames that end the
\* loop (ACK_NRSP, NACK "1", RESULT "1").
LiveFrames ==
  {InFrame(3, 0, <<>>), InFrame(0, 4, <<>>), InFrame(1, 4, <<>>),
   InFrame(2, 0, <<>>), InFrame(4, 1, <<49>>), InFrame(6, 1, <<49>>)}

\* receiveFeatureReport resolves with the frame dv, at any pass of the loop:
\* the passes beyond MaxReads are not counted.
ReceiveFeatureReportAgain(p, dv) ==
  /\ task[p].pc = "read"
  /\ opened
  /\ Step(p, ProcessFRFrame([task[p] EXCEPT !.reads = Min(task[p].reads, MaxReads - 1)], dv))
  /\ UNCHANGED <<opened, hbTimer>>

\* Every transport call completes: a pending write resolves or rejects, a
\* pending read resolves with a frame or rejects.
WriteCompletes(p) ==
  SendFeatureReportOk(p) \/ \E e \in TransportErrors : SendFeatureReportFail(p, e)
ReadCompletes(p) ==
  \/ \E dv \in LiveFrames : ReceiveFeatureReportAgain(p, dv)
  \/ \E e \in TransportErrors : ReceiveFeatureReportFail(p, e)

NextLive ==
  \/ \E p \in Tasks : OtaSend(p, "hid", HbText)
  \/ \E p \in Tasks : SendFeatureReportOk(p)
  \/ \E p \in Tasks, e \in TransportErrors : SendFeatureReportFail(p, e)
  \/ \E p \in Tasks, dv \in LiveFrames : ReceiveFeatureReportAgain(p, dv)
  \/ \E p \in Tasks, e \in TransportErrors : ReceiveFeatureReportFail(p, e)
  \/ \E p \in Tasks : Return(p)

SpecLive ==
  /\ InitOpened
  /\ [][NextLive]_vars
  /\ \A p \in Tasks : WF_vars(WriteCompletes(p)) /\ WF_vars(ReadCompletes(p))

\* C32: a send whose transport calls all complete completes itself, with a
\* result or a failure: from any point of an exchange the send is
\* eventually settled.
C32_SendCompletes ==
  \A p \in Tasks : (task[p].pc \in {"write", "read"}) ~> (task[p].pc = "done")

\* The application with a device connected and attached: the user starts
\* two-second samples and may disconnect; the device answers every command
\* with RESULT "1", NACK "1" or ACK_RSP, and any transport call may fail.
InitApp ==
  /\ opened = TRUE
  /\ task = [p \in Tasks |-> IdleTask]
  /\ ota_g_device = "hid"
  /\ info = Resolved("number", 1)
  /\ hbTimer = NoTimer
  /\ app = [NoApp EXCEPT !.device = "hid"]

AppReadCompletes(p) ==
  \/ \E dv \in SessionFrames : task[p].reads < EngineReads /\ ReceiveFeatureReportOk(p, dv)
  \/ \E e \in TransportErrors : ReceiveFeatureReportFail(p, e)
CloseCompletes(p) ==
  DeviceCloseOk(p) \/ \E e \in TransportErrors : DeviceCloseFail(p, e)

NextApp ==
  \/ StartTwoSecondSample
  \/ \E p \in Tasks : CountdownDone(p)
  \/ \E p \in Tasks : StopTimerFire(p)
  \/ \E p \in Tasks : DisconnectDevice(p)
  \/ \E p \in Tasks : DeviceCloseOk(p)
  \/ \E p \in Tasks, e \in TransportErrors : DeviceCloseFail(p, e)
  \/ \E p \in Tasks : DisconnectDone(p)
  \/ \E p \in Tasks : SendFeatureReportOk(p)
  \/ \E p \in Tasks, e \in TransportErrors : SendFeatureReportFail(p, e)
  \/ \E p \in Tasks, dv \in SessionFrames :
       task[p].reads < EngineReads /\ ReceiveFeatureReportOk(p, dv)
  \/ \E p \in Tasks, e \in TransportErrors : ReceiveFeatureReportFail(p, e)
  \/ \E p \in Tasks : AppReturn(p)

\* Timeouts fire, transport calls complete and settled calls return.  (A
\* timeout needs no free task to fire: strong fairness keeps the tasks of
\* other calls from holding it back for ever.)
SpecApp ==
  /\ InitApp
  /\ [][NextApp]_vars
  /\ SF_vars(\E p \in Tasks : CountdownDone(p))
  /\ SF_vars(\E p \in Tasks : StopTimerFire(p))
  /\ \A p \in Tasks :
       /\ WF_vars(WriteCompletes(p))
       /\ WF_vars(AppReadCompletes(p))
       /\ WF_vars(CloseCompletes(p))
       /\ WF_vars(DisconnectDone(p))
       /\ WF_vars(AppReturn(p))

\* C31: whatever open, send and close calls were made and however they
\* ended, no keep-alive timeout is set or pending and no call of sendHB is
\* running or has run: nothing in the program arms the timer.
C31_KeepAliveDormant ==
  /\ hbTimer = NoTimer
  /\ \A p \in Tasks : task[p].caller # "hb"

\* A send has been rejected and a close has returned on a device that an
\* open had attached, and no timer is there.
C31_Witness ==
  /\ info # NoResult
  /\ \E p, q \in Tasks :
       /\ task[p].caller = "send" /\ task[p].pc = "done"
       /\ task[p].result.state = "rejected"
       /\ task[q].caller = "close" /\ task[q].pc = "done"
       /\ task[q].result.state = "resolved"
  /\ ~hbTimer.pending

\* C33: an otaOpen that fails leaves the engine as it was before the call
\* (every call here starts on a device that is not opened): the session is
\* the one it was; when the transport's open failed no frame was written;
\* when the init exchange failed the device otaOpen had opened is not left
\* opened.
C33_FailedOpenLeavesState ==
  [][\A p \in Tasks :
       Settles(p, "open", "rejected") =>
         /\ ota_g_device' = ota_g_device
         /\ (task'[p].result.msg.tpl = "errorOpeningDevice" =>
               task'[p].sent = <<>> /\ opened' = opened)
         /\ (task'[p].result.msg.tpl = "errorSendingInit" => ~opened')]_vars

\* C34: otaClose(d) leaves the session alone when d is not the device the
\* session is attached to, and a close that fails with the wrapped close
\* error leaves the session attached to d, as it was before the call (every
\* close here is called with the session attached to "hid").
C34_CloseDetachesOwn ==
  /\ [][\A p \in Tasks :
          (CallsClose(p) /\ task'[p].device # ota_g_device) =>
            ota_g_device' = ota_g_device]_vars
  /\ [](\A p \in Tasks :
          (/\ task[p].caller = "close"
           /\ task[p].pc = "done"
           /\ task[p].result.state = "rejected"
           /\ task[p].result.msg.tpl = "errorClosingDevice") =>
            ota_g_device = task[p].device)

\* C35: once collection has started in the two-second sampling flow, it
\* eventually stops: isCollecting and isStreaming are both false again,
\* whatever the outcome of the "sensor_stream off" send and whether or not
\* the device is disconnected in between.
C35_CollectionStops ==
  app.isCollecting ~> (~app.isCollecting /\ ~app.isStreaming)

====
